---- MODULE Spec2Model ----
(***************************************************************************)
(* Model of musical_brain: the generic node accessor of services.py       *)
(* (create_node, get_node, update_node, delete_node, list_nodes,           *)
(* count_nodes, initialize_schema) running its Cypher queries through     *)
(* DatabaseManager.run_query of database.py against a labelled property   *)
(* graph.                                                                  *)
(*                                                                         *)
(* A property value is a pair <<tag, n>>:                                  *)
(*   <<"uuid", n>>  the string str(uuid.uuid4()) of the n-th generated id  *)
(*   <<"str",  n>>  any other caller string                               *)
(*   <<"dt",   t>>  a datetime object for instant t                       *)
(*   <<"iso",  t>>  the string datetime.isoformat() gives for instant t   *)
(*   <<"int",  n>>  the integer n                                          *)
(***************************************************************************)
EXTENDS Integers, Sequences, FiniteSets, TLC

VARIABLES driver, store, schema, clock, nextUuid, calls, ret, deleted,
          pending

vars == <<driver, store, schema, clock, nextUuid, calls, ret, deleted,
          pending>>

\* ---------------------------------------------------------------- bounds
MaxNodes == 2
MaxClock == 2
MaxCalls == 3
MaxFields == 1
MaxTasks == 2

\* ------------------------------------------------------------ vocabulary
Labels == {"Album", "Artist", "Genre", "Tag"}

Keys == {"id", "created_at", "updated_at", "title"}

EmptyMap == [k \in {} |-> <<"str", 0>>]

NonexistentId == <<"str", 0>>

Uuid(n) == <<"uuid", n>>

\* ids a caller can name: the literal "test-nonexistent-id" of the tests and
\* every id an earlier create_node generated and returned
CallerIds == {NonexistentId} \cup {Uuid(n) : n \in 1..(nextUuid - 1)}

\* the values a caller can put under a key; the created_at a caller names is
\* an instant later than any the clock shows
FieldValues(k) ==
    CASE k = "id" -> CallerIds
      [] k = "created_at" -> {<<"dt", MaxClock + 1>>}
      [] k = "updated_at" -> {<<"iso", 0>>}
      [] OTHER -> {<<"str", 1>>, <<"dt", 0>>}

\* the field maps a caller can pass as data / updates
FieldMaps ==
    UNION {{f \in [D -> UNION {FieldValues(k) : k \in D}] :
               \A k \in D : f[k] \in FieldValues(k)} :
           D \in {E \in SUBSET Keys : Cardinality(E) <= MaxFields}}

\* ------------------------------------------------------- python helpers
\* {**base, **over}: a dict display, later keys win
Merge(base, over) ==
    [k \in DOMAIN base \cup DOMAIN over |->
        IF k \in DOMAIN over THEN over[k] ELSE base[k]]

\* datetime.isoformat() on datetime values, every other value untouched
IsoFormat(v) == IF v[1] = "dt" THEN <<"iso", v[2]>> ELSE v

\* the loop left out: datetime values go to the query as they are
ConvertNothing(d) == d

\* the loop "if isinstance(value, datetime): d[key] = value.isoformat()"
ConvertDatetimes(d) == [k \in DOMAIN d |-> IsoFormat(d[k])]

\* the labels that carry updated_at: label in ["Album"]
UpdatedAtLabels == {"Album"}

\* ------------------------------------------------------- result records
Node(p) == [kind |-> "node", node |-> p, flag |-> FALSE, err |-> "",
            rows |-> <<>>, count |-> 0]

None == [kind |-> "None", node |-> EmptyMap, flag |-> FALSE, err |-> "",
         rows |-> <<>>, count |-> 0]

Bool(b) == [kind |-> "bool", node |-> EmptyMap, flag |-> b, err |-> "",
            rows |-> <<>>, count |-> 0]

\* a list of nodes
List(rows) == [kind |-> "list", node |-> EmptyMap, flag |-> FALSE, err |-> "",
               rows |-> rows, count |-> 0]

EmptyList == List(<<>>)

Number(n) == [kind |-> "int", node |-> EmptyMap, flag |-> FALSE, err |-> "",
              rows |-> <<>>, count |-> n]

Raise(e) == [kind |-> "raise", node |-> EmptyMap, flag |-> FALSE, err |-> e,
             rows |-> <<>>, count |-> 0]

\* ret is the last call: its arguments, the caller's field map as the call
\* left it (left), the run_query invocations it made (queries) and what it
\* gave its caller (result)
NoCall == [op |-> "", label |-> "", id |-> NonexistentId, data |-> EmptyMap,
           left |-> EmptyMap, queries |-> <<>>, result |-> None]

Call(op, label, id, data, left, queries, result) ==
    [op |-> op, label |-> label, id |-> id, data |-> data, left |-> left,
     queries |-> queries, result |-> result]

\* ------------------------------------------------------ DatabaseManager
\* what the driver can do with a query it is handed: execute it ("none"),
\* fail ("error"), or answer with no record and write nothing ("norows")
Responses == {"none", "error", "norows"}

\* the guard "if not self.driver" left out
RunQueryUnguarded(fail) ==
    IF fail = "error" THEN "ExecutionFailure" ELSE "ok"

\* run_query: raises when self.driver is None, otherwise hands the query to
\* the driver, which executes it or fails (fail is the driver's choice)
RunQuery(fail) ==
    IF driver = "None" THEN "NotConnected"
    ELSE IF fail = "error" THEN "ExecutionFailure"
    ELSE "ok"

\* how one run_query invocation ended: with the error it raised, with no
\* record, or with records
Answer(outcome, rows) ==
    IF outcome # "ok" THEN outcome
    ELSE IF rows = <<>> THEN "norows"
    ELSE "rows"

\* a second invocation after one that raised
QueryRetried(name, outcome, rows) ==
    IF outcome # "ok"
    THEN <<[query |-> name, answer |-> outcome],
           [query |-> name, answer |-> outcome]>>
    ELSE <<[query |-> name, answer |-> Answer(outcome, rows)]>>

\* the one run_query invocation of a service call
Query(name, outcome, rows) ==
    <<[query |-> name, answer |-> Answer(outcome, rows)]>>

\* ------------------------------------------------------- Cypher queries
\* MATCH (n:label {id: $id})
Matches(st, label, id) ==
    {s \in DOMAIN st : /\ st[s].label = label
                       /\ "id" \in DOMAIN st[s].props
                       /\ st[s].props["id"] = id}

\* a uniqueness constraint on label.id rejects a write that would leave two
\* nodes of the label with the same id
Violates(st, cons) ==
    \E s, t \in DOMAIN st :
        /\ s # t
        /\ st[s].label = st[t].label
        /\ st[s].label \in cons
        /\ "id" \in DOMAIN st[s].props
        /\ "id" \in DOMAIN st[t].props
        /\ st[s].props["id"] = st[t].props["id"]

\* CREATE (n:label $props)
CreateQuery(st, s, label, props) ==
    [t \in DOMAIN st \cup {s} |->
        IF t = s THEN [label |-> label, props |-> props] ELSE st[t]]

\* SET n = $updates: the payload replaces the property map
SetQueryReplacing(st, label, id, updates) ==
    [t \in DOMAIN st |->
        IF t \in Matches(st, label, id)
        THEN [label |-> label, props |-> updates]
        ELSE st[t]]

\* MERGE (n:label {id: $id}) SET ...: a node is made when none matches
SetQueryCreating(st, label, id, updates) ==
    IF Matches(st, label, id) # {}
    THEN [t \in DOMAIN st |->
             IF t \in Matches(st, label, id)
             THEN [label |-> label, props |-> Merge(st[t].props, updates)]
             ELSE st[t]]
    ELSE LET s == CHOOSE t \in 1..(MaxNodes + 1) : t \notin DOMAIN st
         IN  [t \in DOMAIN st \cup {s} |->
                 IF t = s
                 THEN [label |-> label,
                       props |-> Merge([id |-> id], updates)]
                 ELSE st[t]]

\* MATCH (n:label {id: $id}) SET n.k = $updates.k, ...
SetQuery(st, label, id, updates) ==
    [t \in DOMAIN st |->
        IF t \in Matches(st, label, id)
        THEN [label |-> label, props |-> Merge(st[t].props, updates)]
        ELSE st[t]]

\* MATCH (n:label {id: $id}) DELETE n
DeleteQuery(st, label, id) ==
    [t \in DOMAIN st \ Matches(st, label, id) |-> st[t]]

\* ---------------------------------------------------------------- schema
\* the statements of constraints_and_indexes, in their order
Statements ==
    <<"album_id_unique", "artist_id_unique", "genre_id_unique",
      "album_title_index", "artist_name_index", "genre_name_index",
      "album_created_at_index">>

\* FOR (a:Label) REQUIRE a.id IS UNIQUE
ConstraintLabel(name) ==
    CASE name = "album_id_unique" -> "Album"
      [] name = "artist_id_unique" -> "Artist"
      [] name = "genre_id_unique" -> "Genre"
      [] OTHER -> ""

\* the labels whose id is under a uniqueness constraint
UniqueLabels(sch) == {ConstraintLabel(name) : name \in sch} \ {""}

\* a uniqueness constraint cannot be created over data that breaks it
Creatable(st, name) ==
    ConstraintLabel(name) = "" \/ ~Violates(st, {ConstraintLabel(name)})

\* ---------------------------------------------------------- create_node
\* node_data as create_node builds it before the query
NodeData(label, data, node_id, now) ==
    LET base == Merge([id |-> node_id, created_at |-> now], data)
        stamped == IF label \in UpdatedAtLabels
                   THEN Merge(base, [updated_at |-> now])
                   ELSE base
    IN  ConvertDatetimes(stamped)

\* the element the database gives a new node: the lowest free one
FreeSlot(st) ==
    CHOOSE s \in 1..MaxNodes :
        s \notin DOMAIN st /\ \A t \in 1..(s - 1) : t \in DOMAIN st

\* the first record of an answer: 0 when the query raised or the driver
\* answered with no record
Row(outcome, fail, first) ==
    IF outcome = "ok" /\ fail # "norows" THEN first ELSE 0

\* the records "RETURN n" gives for that element
Records(st, row) == IF row = 0 THEN <<>> ELSE <<st[row].props>>

\* "if result" without the raise: no record gives None
CreatedOrNone(result) ==
    IF result # <<>> THEN Node(result[1]) ELSE None

\* if result: return dict(result[0]["n"]), else raise RuntimeError
Created(result) ==
    IF result # <<>> THEN Node(result[1]) ELSE Raise("CreationFailure")

\* uuid4 values are fresh: nextUuid moves on when an id has been handed out
CreateNode(label, data, fail) ==
    /\ calls < MaxCalls
    /\ Cardinality(DOMAIN store) < MaxNodes
    /\ LET node_id == Uuid(nextUuid)
           node_data == NodeData(label, data, node_id, <<"dt", clock>>)
           s == FreeSlot(store)
           st == CreateQuery(store, s, label, node_data)
           outcome == IF RunQuery(fail) # "ok" THEN RunQuery(fail)
                      ELSE IF Violates(st, UniqueLabels(schema))
                           THEN "ExecutionFailure"
                      ELSE "ok"
           result == Records(st, Row(outcome, fail, s))
       IN  /\ store' = IF result # <<>> THEN st ELSE store
           /\ nextUuid' = IF result # <<>> THEN nextUuid + 1 ELSE nextUuid
           /\ ret' = Call("create", label, NonexistentId, data, data,
                          Query("CREATE", outcome, result),
                          IF outcome # "ok" THEN Raise(outcome)
                          ELSE Created(result))
    /\ calls' = calls + 1
    /\ UNCHANGED <<driver, schema, clock, deleted, pending>>

\* ------------------------------------------------------------- get_node
\* first is the element of the first row, 0 when the query returns no row
GetResult(st, first) == IF first = 0 THEN None ELSE Node(st[first].props)

FirstRows(label, id) ==
    IF Matches(store, label, id) = {} THEN {0} ELSE Matches(store, label, id)

GetNode(label, id, fail) ==
    /\ calls < MaxCalls
    /\ \E first \in FirstRows(label, id) :
          LET outcome == RunQuery(fail)
              row == Row(outcome, fail, first)
          IN  ret' = Call("get", label, id, EmptyMap, EmptyMap,
                          Query("MATCH", outcome, Records(store, row)),
                          IF outcome # "ok" THEN Raise(outcome)
                          ELSE GetResult(store, row))
    /\ calls' = calls + 1
    /\ UNCHANGED <<driver, store, schema, clock, nextUuid, deleted, pending>>

\* what get_node(label, id) can return in the current state
GetReturns(label, id) ==
    {GetResult(store, first) : first \in FirstRows(label, id)}

\* ---------------------------------------------------------- update_node
\* the updates dict as update_node hands it to the query
UpdateSet(label, updates, now) ==
    ConvertDatetimes(IF label \in UpdatedAtLabels
                     THEN Merge(updates, [updated_at |-> IsoFormat(now)])
                     ELSE updates)

\* the early return left out: an empty payload goes on to the SET query
NoUpdatesIgnored(updates) == FALSE

\* if not updates
NoUpdates(updates) == updates = EmptyMap

UpdateNode(label, id, updates, fail) ==
    /\ calls < MaxCalls
    /\ \E first \in FirstRows(label, id) :
          IF NoUpdates(updates)
          THEN LET outcome == RunQuery(fail)
                   row == Row(outcome, fail, first)
               IN  /\ ret' = Call("update", label, id, updates, updates,
                                  Query("MATCH", outcome, Records(store, row)),
                                  IF outcome # "ok" THEN Raise(outcome)
                                  ELSE GetResult(store, row))
                   /\ store' = store
          ELSE LET st == SetQuery(store, label, id,
                                  UpdateSet(label, updates, <<"dt", clock>>))
                   outcome == IF RunQuery(fail) # "ok" THEN RunQuery(fail)
                              ELSE IF Violates(st, UniqueLabels(schema))
                                   THEN "ExecutionFailure"
                              ELSE "ok"
                   row == Row(outcome, fail, first)
               IN  /\ store' = IF outcome = "ok" /\ fail # "norows"
                               THEN st ELSE store
                   /\ ret' = Call("update", label, id, updates,
                                  UpdateSet(label, updates, <<"dt", clock>>),
                                  Query("SET", outcome, Records(st, row)),
                                  IF outcome # "ok" THEN Raise(outcome)
                                  ELSE GetResult(st, row))
    /\ calls' = calls + 1
    /\ UNCHANGED <<driver, schema, clock, nextUuid, deleted, pending>>

\* ------------------------------------------- update_node, task by task
\* the tasks that can be inside update_node at one time
Tasks == 1..MaxTasks

\* update_node up to "await db.run_query": the payload is not empty, the
\* clock is read for updated_at of an Album and the caller's dict rewritten
UpdateBegin(task, label, id, updates) ==
    /\ calls < MaxCalls
    /\ task \notin DOMAIN pending
    /\ ~NoUpdates(updates)
    /\ pending' =
          [t \in DOMAIN pending \cup {task} |->
              IF t = task
              THEN [label |-> label, id |-> id, data |-> updates,
                    set |-> UpdateSet(label, updates, <<"dt", clock>>)]
              ELSE pending[t]]
    /\ calls' = calls + 1
    /\ UNCHANGED <<driver, store, schema, clock, nextUuid, ret, deleted>>

\* the task's query runs, in one write, and update_node returns
UpdateRun(task, fail) ==
    /\ task \in DOMAIN pending
    /\ \E first \in FirstRows(pending[task].label, pending[task].id) :
          LET call == pending[task]
              st == SetQuery(store, call.label, call.id, call.set)
              outcome == IF RunQuery(fail) # "ok" THEN RunQuery(fail)
                         ELSE IF Violates(st, UniqueLabels(schema))
                              THEN "ExecutionFailure"
                         ELSE "ok"
              row == Row(outcome, fail, first)
          IN  /\ store' = IF outcome = "ok" /\ fail # "norows"
                          THEN st ELSE store
              /\ ret' = Call("update", call.label, call.id, call.data,
                             call.set,
                             Query("SET", outcome, Records(st, row)),
                             IF outcome # "ok" THEN Raise(outcome)
                             ELSE GetResult(st, row))
    /\ pending' = [t \in DOMAIN pending \ {task} |-> pending[t]]
    /\ UNCHANGED <<driver, schema, clock, nextUuid, calls, deleted>>

\* ---------------------------------------------------------- delete_node
\* RETURN count(n) as deleted_count: one row, also when nothing matched
DeleteRows(st, label, id) ==
    <<[deleted_count |-> Cardinality(Matches(st, label, id))]>>

\* success = bool(result): the count in the row is not looked at
SuccessOfAnyRow(result) == Bool(result # <<>>)

\* success = result and result[0]["deleted_count"] > 0
Success(result) ==
    IF result = <<>> THEN EmptyList ELSE Bool(result[1].deleted_count > 0)

\* what delete_node(label, id) returns in the current state
DeleteReturns(label, id) == Success(DeleteRows(store, label, id))

DeleteNode(label, id, fail) ==
    /\ calls < MaxCalls
    /\ LET outcome == RunQuery(fail)
           written == outcome = "ok" /\ fail # "norows"
           result == IF written THEN DeleteRows(store, label, id) ELSE <<>>
           success == IF outcome # "ok" THEN Raise(outcome)
                      ELSE Success(result)
       IN  /\ store' = IF written
                       THEN DeleteQuery(store, label, id) ELSE store
           /\ ret' = Call("delete", label, id, EmptyMap, EmptyMap,
                          Query("DELETE", outcome, result), success)
           /\ deleted' = IF success = Bool(TRUE)
                         THEN deleted \cup {<<label, id>>} ELSE deleted
    /\ calls' = calls + 1
    /\ UNCHANGED <<driver, schema, clock, nextUuid, pending>>

\* ----------------------------------------------------------- list_nodes
\* MATCH (n:label)
LabelNodes(st, label) == {s \in DOMAIN st : st[s].label = label}

\* the value ORDER BY n.created_at compares: ISO texts of UTC instants order
\* as their instants do; a node without created_at has null, the largest
SortKey(p) ==
    IF "created_at" \in DOMAIN p THEN p["created_at"][2] ELSE MaxClock + 2

\* ORDER BY n.created_at DESC: every order of the label's elements in which
\* created_at never rises; the database settles the order of equal values
Orderings(st, label) ==
    LET n == Cardinality(LabelNodes(st, label))
    IN  {o \in [1..n -> LabelNodes(st, label)] :
            /\ \A i, j \in 1..n : i # j => o[i] # o[j]
            /\ \A i \in 1..(n - 1) :
                   SortKey(st[o[i]].props) >= SortKey(st[o[i + 1]].props)}

\* LIMIT applied to the ordering, SKIP not
PageFromStart(o, limit, offset) ==
    [i \in 1..(IF limit < Len(o) THEN limit ELSE Len(o)) |-> o[i]]

\* SKIP $offset LIMIT $limit
Page(o, limit, offset) ==
    [i \in 1..(IF limit < Len(o) - offset THEN limit ELSE Len(o) - offset) |->
        o[offset + i]]

\* the elements list_nodes(label, limit, offset) can get in the current state
ListSlots(label, limit, offset) ==
    {Page(o, limit, offset) : o \in Orderings(store, label)}

\* the arguments of a list_nodes call
Paging(limit, offset) ==
    [limit |-> <<"int", limit>>, offset |-> <<"int", offset>>]

ListNodes(label, limit, offset, fail) ==
    /\ calls < MaxCalls
    /\ \E page \in ListSlots(label, limit, offset) :
          LET outcome == RunQuery(fail)
              result == IF outcome = "ok" /\ fail # "norows"
                        THEN [i \in DOMAIN page |-> store[page[i]].props]
                        ELSE <<>>
          IN  ret' = Call("list", label, NonexistentId, Paging(limit, offset),
                          Paging(limit, offset),
                          Query("ORDER", outcome, result),
                          IF outcome # "ok" THEN Raise(outcome)
                          ELSE List(result))
    /\ calls' = calls + 1
    /\ UNCHANGED <<driver, store, schema, clock, nextUuid, deleted, pending>>

\* ---------------------------------------------------------- count_nodes
\* RETURN count(n) as total: one row, also for a label without nodes
CountRows(st, label) == <<[total |-> Cardinality(LabelNodes(st, label))]>>

\* result[0]["total"] if result else 0
Total(result) == IF result # <<>> THEN Number(result[1].total) ELSE Number(0)

\* what count_nodes(label) returns in the current state
CountReturns(label) == Total(CountRows(store, label))

CountNodes(label, fail) ==
    /\ calls < MaxCalls
    /\ LET outcome == RunQuery(fail)
           result == IF outcome = "ok" /\ fail # "norows"
                     THEN CountRows(store, label) ELSE <<>>
       IN  ret' = Call("count", label, NonexistentId, EmptyMap, EmptyMap,
                       Query("COUNT", outcome, result),
                       IF outcome # "ok" THEN Raise(outcome)
                       ELSE Total(result))
    /\ calls' = calls + 1
    /\ UNCHANGED <<driver, store, schema, clock, nextUuid, deleted, pending>>

\* ---------------------------------------------------- initialize_schema
\* no except clause: the first error leaves the loop
SwallowedNever(e) == FALSE

\* except Exception: the errors run_query raises are RuntimeError and the
\* driver's errors, all of them Exceptions
Swallowed(e) == e \in {"NotConnected", "ExecutionFailure"}

\* how run_query ends on the j-th statement; failed: the statements on which
\* the driver fails
StatementOutcome(j, failed) ==
    IF RunQuery(IF j \in failed THEN "error" ELSE "none") # "ok"
    THEN RunQuery(IF j \in failed THEN "error" ELSE "none")
    ELSE IF ~Creatable(store, Statements[j]) THEN "ExecutionFailure"
    ELSE "ok"

\* the last statement the loop reaches: the first whose error is not
\* swallowed, the seventh when there is none
LoopEnd(failed) ==
    LET out == {j \in 1..Len(Statements) :
                   /\ StatementOutcome(j, failed) # "ok"
                   /\ ~Swallowed(StatementOutcome(j, failed))}
    IN  IF out = {} THEN Len(Statements)
        ELSE CHOOSE j \in out : \A i \in out : j <= i

\* IF NOT EXISTS: a statement whose constraint or index is there changes
\* nothing; a schema statement returns no record
InitializeSchema(failed) ==
    /\ calls < MaxCalls
    /\ LET last == LoopEnd(failed)
           end == StatementOutcome(last, failed)
       IN  /\ schema' = schema \cup
                  {Statements[j] : j \in {i \in 1..last :
                                     StatementOutcome(i, failed) = "ok"}}
           /\ ret' = Call("initialize_schema", "", NonexistentId, EmptyMap,
                          EmptyMap,
                          [j \in 1..last |->
                              [query |-> Statements[j],
                               answer |-> Answer(StatementOutcome(j, failed),
                                                 <<>>)]],
                          IF end = "ok" \/ Swallowed(end)
                          THEN None ELSE Raise(end))
    /\ calls' = calls + 1
    /\ UNCHANGED <<driver, store, clock, nextUuid, deleted, pending>>

\* ------------------------------------------------------ test_connection
\* no except clause: the error of run_query reaches the caller
ProbedOrRaised(outcome, rows) ==
    IF outcome # "ok" THEN Raise(outcome) ELSE Bool(rows # <<>>)

\* return len(result) > 0; except Exception: return False
Probed(outcome, rows) ==
    IF outcome # "ok" THEN Bool(FALSE) ELSE Bool(rows # <<>>)

\* RETURN 'Hello Neo4j!' as message: one record
TestConnection(fail) ==
    /\ calls < MaxCalls
    /\ LET outcome == RunQuery(fail)
           rows == IF outcome = "ok" /\ fail # "norows"
                   THEN <<[message |-> "Hello Neo4j!"]>> ELSE <<>>
       IN  ret' = Call("test_connection", "", NonexistentId, EmptyMap,
                       EmptyMap, Query("RETURN", outcome, rows),
                       Probed(outcome, rows))
    /\ calls' = calls + 1
    /\ UNCHANGED <<driver, store, schema, clock, nextUuid, deleted, pending>>

\* -------------------------------------------------------------- connect
\* connect assigns self.driver before verify_connectivity, which may raise:
\* the driver stays assigned either way
Connect(ok) ==
    /\ driver' = "set"
    /\ ret' = Call("connect", "", NonexistentId, EmptyMap, EmptyMap, <<>>,
                   IF ok THEN None ELSE Raise("ConnectError"))
    /\ UNCHANGED <<store, schema, clock, nextUuid, calls, deleted, pending>>

\* ---------------------------------------------------------------- clock
\* datetime.now(UTC) never goes backwards
Tick ==
    /\ clock < MaxClock
    /\ clock' = clock + 1
    /\ UNCHANGED <<driver, store, schema, nextUuid, calls, ret, deleted,
                   pending>>

\* ----------------------------------------------------------------- spec
\* in Spec the driver executes every query it is handed
Faults == {"none"}

Init ==
    /\ driver = "None"
    /\ store = EmptyMap
    /\ schema = {}
    /\ clock = 1
    /\ nextUuid = 1
    /\ calls = 0
    /\ ret = NoCall
    /\ deleted = {}
    /\ pending = <<>>

Create == \E label \in Labels, data \in FieldMaps, fail \in Faults :
              CreateNode(label, data, fail)

Get == \E label \in Labels, id \in CallerIds, fail \in Faults :
           GetNode(label, id, fail)

Update == \E label \in Labels, id \in CallerIds, updates \in FieldMaps,
             fail \in Faults : UpdateNode(label, id, updates, fail)

Delete == \E label \in Labels, id \in CallerIds, fail \in Faults :
              DeleteNode(label, id, fail)

Schema == \E failed \in {{}} : InitializeSchema(failed)

Connection == \E ok \in BOOLEAN : Connect(ok)

Next == Create \/ Get \/ Update \/ Delete \/ Schema \/ Connection \/ Tick

Spec == Init /\ [][Next]_vars

\* ------------------------------------------------- listing and counting
\* the pages a caller asks for
Limits == 1..MaxNodes

Offsets == 0..MaxNodes

ListedLabels == {"Album"}

\* the labels nodes are created and counted under
CountedLabels == {"Album", "Genre"}

Listing == \E label \in ListedLabels, limit \in Limits, offset \in Offsets,
              fail \in Faults : ListNodes(label, limit, offset, fail)

Counting == \E label \in CountedLabels, fail \in Faults :
               CountNodes(label, fail)

\* the payloads of the listed nodes: none, an id handed out before, a
\* created_at of the caller's
ListedMaps ==
    {EmptyMap, [created_at |-> <<"dt", MaxClock + 1>>]}
        \cup {[id |-> i] : i \in CallerIds}

Creation == \E label \in CountedLabels, data \in ListedMaps, fail \in Faults :
               CreateNode(label, data, fail)

Deletion == \E label \in ListedLabels, id \in CallerIds, fail \in Faults :
               DeleteNode(label, id, fail)

ListNext == Creation \/ Deletion \/ Listing \/ Counting \/ Connection \/ Tick

SpecList == Init /\ [][ListNext]_vars

\* ---------------------------------------------------- a failing driver
\* every service on one label, the driver free to fail or to answer with no
\* record on each query
FaultLabels == {"Album"}

FaultMaps == {EmptyMap, [title |-> <<"str", 1>>]}

\* the statements a driver fails on in one initialize_schema call: none, any
\* one of them, all of them
FailedSets ==
    {{}, 1..Len(Statements)} \cup {{j} : j \in 1..Len(Statements)}

FaultCreate == \E label \in FaultLabels, fail \in Responses :
                  CreateNode(label, EmptyMap, fail)

FaultGet == \E label \in FaultLabels, id \in CallerIds, fail \in Responses :
               GetNode(label, id, fail)

FaultUpdate == \E label \in FaultLabels, id \in CallerIds,
                  updates \in FaultMaps, fail \in Responses :
                  UpdateNode(label, id, updates, fail)

FaultDelete == \E label \in FaultLabels, id \in CallerIds,
                  fail \in Responses : DeleteNode(label, id, fail)

FaultList == \E label \in FaultLabels, limit \in Limits, fail \in Responses :
                ListNodes(label, limit, 0, fail)

FaultCount == \E label \in FaultLabels, fail \in Responses :
                 CountNodes(label, fail)

FaultSchema == \E failed \in FailedSets : InitializeSchema(failed)

FaultProbe == \E fail \in Responses : TestConnection(fail)

FaultNext ==
    \/ FaultCreate \/ FaultGet \/ FaultUpdate \/ FaultDelete
    \/ FaultList \/ FaultCount \/ FaultSchema \/ FaultProbe \/ Connection

SpecFaults == Init /\ [][FaultNext]_vars

\* ------------------------------------------------- overlapping updates
\* update_node calls on Album nodes whose queries run in any order, with
\* create_node and delete_node calls between them
TaskLabels == {"Album"}

TaskMaps ==
    {[title |-> <<"str", 1>>], [title |-> <<"dt", 0>>],
     [updated_at |-> <<"iso", 0>>]}

TaskCreate == \E label \in TaskLabels, fail \in Faults :
                 CreateNode(label, EmptyMap, fail)

TaskBegin == \E task \in Tasks, label \in TaskLabels, id \in CallerIds,
                updates \in TaskMaps : UpdateBegin(task, label, id, updates)

TaskRun == \E task \in Tasks, fail \in Faults : UpdateRun(task, fail)

TaskDelete == \E label \in TaskLabels, id \in CallerIds, fail \in Faults :
                 DeleteNode(label, id, fail)

TaskNext ==
    TaskCreate \/ TaskBegin \/ TaskRun \/ TaskDelete \/ Connection \/ Tick

SpecTasks == Init /\ [][TaskNext]_vars

\* ================================================================ claims
\* a service call has just returned a node
Returned(op) == ret.op = op /\ ret.result.kind = "node"

\* the stamps create_node can have generated so far
GeneratedStamps == {<<"iso", t>> : t \in 1..clock}

\* C1: for every label and field map, also one naming id, created_at or
\* updated_at, the node create_node stores and returns carries the generated
\* id and the generated timestamps under those keys, never the caller's values
C1_GeneratedWins ==
    Returned("create") =>
        /\ \E s \in DOMAIN store : store[s].props = ret.result.node
        /\ ret.result.node["id"] = Uuid(nextUuid - 1)
        /\ \A k \in {"created_at", "updated_at"} \cap DOMAIN ret.result.node :
               ret.result.node[k] \in GeneratedStamps

\* C2: a node keeps the id it was created with as long as it exists: no
\* create_node, update_node or delete_node call, also no update_node whose
\* payload names id, changes the id of an existing node
C2_IdImmutable ==
    [][\A s \in DOMAIN store \cap DOMAIN store' :
           store'[s].props["id"] = store[s].props["id"]]_vars

\* C3: in every reachable state no two extant nodes, of the same label or of
\* different labels, have the same id
C3_IdsUnique ==
    \A s, t \in DOMAIN store :
        s # t => store[s].props["id"] # store[t].props["id"]

\* C4: right after create_node returned node n, get_node(label, n.id) returns
\* a node equal to n, and every caller-supplied field is in it with the value
\* the caller supplied
C4_RoundTrip ==
    Returned("create") =>
        /\ GetReturns(ret.label, ret.result.node["id"]) = {ret.result}
        /\ \A k \in DOMAIN ret.data :
               /\ k \in DOMAIN ret.result.node
               /\ ret.result.node[k] = ret.data[k]

\* C4 as amended: right after create_node returned node n, get_node(label,
\* n.id) can return n, and returns nothing else unless another node of the
\* label carries the same id; every caller-supplied field is in n with the
\* caller's value, a datetime as its ISO text, except updated_at of an Album,
\* which holds the generated stamp
C4_RoundTripStored ==
    Returned("create") =>
        /\ ret.result \in GetReturns(ret.label, ret.result.node["id"])
        /\ Cardinality(Matches(store, ret.label, ret.result.node["id"])) = 1
               => GetReturns(ret.label, ret.result.node["id"]) = {ret.result}
        /\ \A k \in DOMAIN ret.data :
               /\ k \in DOMAIN ret.result.node
               /\ IF k = "updated_at" /\ ret.label \in UpdatedAtLabels
                  THEN ret.result.node[k] \in GeneratedStamps
                  ELSE ret.result.node[k] = IsoFormat(ret.data[k])

C4_Witness ==
    /\ Returned("create")
    /\ "title" \in DOMAIN ret.data
    /\ ret.data["title"] = <<"dt", 0>>
    /\ ret.result.node["title"] = <<"iso", 0>>
    /\ GetReturns(ret.label, ret.result.node["id"]) = {ret.result}

\* the step is a call of op
Called(op) == calls' = calls + 1 /\ ret'.op = op

\* the keys an update_node call with this payload may write
Named(label, updates) ==
    DOMAIN updates \cup (IF label = "Album" THEN {"updated_at"} ELSE {})

\* C5: update_node with a non-empty payload on an existing node changes
\* exactly the fields the payload names (plus updated_at on an Album): every
\* other field of the node keeps its value, no field is removed, a named field
\* holds the payload's value (a datetime as its ISO text) and updated_at of an
\* Album the current instant, no other node changes, and the node returned is
\* the node as updated
C5_UpdateFrame ==
    [][(/\ Called("update")
        /\ ret'.data # EmptyMap
        /\ ret'.result.kind # "raise"
        /\ Matches(store, ret'.label, ret'.id) # {})
       => /\ DOMAIN store' = DOMAIN store
          /\ \A s \in DOMAIN store \ Matches(store, ret'.label, ret'.id) :
                 store'[s] = store[s]
          /\ \A s \in Matches(store, ret'.label, ret'.id) :
                 /\ store'[s].label = store[s].label
                 /\ DOMAIN store'[s].props =
                        DOMAIN store[s].props \cup Named(ret'.label, ret'.data)
                 /\ \A k \in DOMAIN store[s].props \ Named(ret'.label, ret'.data) :
                        store'[s].props[k] = store[s].props[k]
                 /\ \A k \in DOMAIN ret'.data :
                        (k # "updated_at" \/ ret'.label # "Album")
                        => store'[s].props[k] = IsoFormat(ret'.data[k])
                 /\ ret'.label = "Album"
                        => store'[s].props["updated_at"] = <<"iso", clock>>
          /\ ret'.result.kind = "node"
          /\ \E s \in Matches(store, ret'.label, ret'.id) :
                 ret'.result.node = store'[s].props]_vars

C5_Witness ==
    /\ Returned("update")
    /\ DOMAIN ret.data = {"title"}
    /\ ret.label = "Album"
    /\ ret.result.node["created_at"] # ret.result.node["updated_at"]
    /\ ret.result.node["id"] = ret.id

\* C6: a node create_node("Album", fields) returns has created_at and
\* updated_at, and the two are equal
C6_AlbumStamps ==
    (Returned("create") /\ ret.label = "Album") =>
        /\ {"created_at", "updated_at"} \subseteq DOMAIN ret.result.node
        /\ ret.result.node["created_at"] = ret.result.node["updated_at"]

\* C7: a node create_node("Genre", fields) makes has an id and neither
\* created_at nor updated_at
C7_GenreNoStamps ==
    (Returned("create") /\ ret.label = "Genre") =>
        /\ "id" \in DOMAIN ret.result.node
        /\ "created_at" \notin DOMAIN ret.result.node
        /\ "updated_at" \notin DOMAIN ret.result.node

\* C8: an Artist node has created_at and no updated_at when create_node
\* returns it, and an update_node call whose payload does not name updated_at
\* never gives an Artist node an updated_at
C8_ArtistStamps ==
    /\ []((Returned("create") /\ ret.label = "Artist") =>
             /\ "created_at" \in DOMAIN ret.result.node
             /\ "updated_at" \notin DOMAIN ret.result.node)
    /\ [][(Called("update") /\ "updated_at" \notin DOMAIN ret'.data) =>
             \A s \in DOMAIN store \cap DOMAIN store' :
                 (/\ store[s].label = "Artist"
                  /\ "updated_at" \notin DOMAIN store[s].props)
                 => "updated_at" \notin DOMAIN store'[s].props]_vars

\* C9: once delete_node(label, id) has returned true, get_node(label, id)
\* returns absent and delete_node(label, id) returns false, whatever calls on
\* other ids ran since
C9_DeleteTerminal ==
    \A p \in deleted :
        /\ GetReturns(p[1], p[2]) = {None}
        /\ DeleteReturns(p[1], p[2]) = Bool(FALSE)

\* C10: on a connected manager whose driver executes the query, get_node,
\* update_node with a non-empty payload and delete_node on a label and id
\* that match no node return absent, absent and false, raise nothing and
\* leave the store as it was
C10_NotFound ==
    [][(/\ calls' = calls + 1
        /\ driver # "None"
        /\ ret'.op \in {"get", "update", "delete"}
        /\ ret'.op = "update" => ret'.data # EmptyMap
        /\ Matches(store, ret'.label, ret'.id) = {})
       => /\ ret'.result = IF ret'.op = "delete" THEN Bool(FALSE) ELSE None
          /\ store' = store]_vars

C10_Witness ==
    /\ ret.op = "delete"
    /\ ret.result = Bool(FALSE)
    /\ driver = "set"
    /\ DOMAIN store # {}
    /\ Matches(store, ret.label, ret.id) = {}

\* C11: in every state create_node and delete_node calls lead to,
\* count_nodes(label) is the number of extant nodes of the label: 0 for a
\* label without nodes, one more after each create_node that returned a node,
\* one less after each delete_node that returned true
C11_CountTracksNodes ==
    /\ [](\A label \in Labels :
             /\ CountReturns(label) = Number(Cardinality(LabelNodes(store, label)))
             /\ LabelNodes(store, label) = {} => CountReturns(label) = Number(0))
    /\ [][\A label \in Labels :
             /\ (Called("create") /\ ret'.label = label
                 /\ ret'.result.kind = "node")
                => CountReturns(label)'.count = CountReturns(label).count + 1
             /\ (Called("delete") /\ ret'.label = label
                 /\ ret'.result = Bool(TRUE))
                => CountReturns(label)'.count = CountReturns(label).count - 1]_vars

\* C12: update_node(label, id, {}) gives its caller what get_node(label, id)
\* gives in the same state (the node, absent, or the Not-connected error) and
\* leaves the store as it was: updated_at of an Album is not refreshed
C12_EmptyUpdateIsGet ==
    [][(Called("update") /\ ret'.data = EmptyMap)
       => /\ store' = store
          /\ IF driver = "None"
             THEN ret'.result = Raise("NotConnected")
             ELSE ret'.result \in GetReturns(ret'.label, ret'.id)]_vars

C12_Witness ==
    /\ Returned("update")
    /\ ret.data = EmptyMap
    /\ ret.label = "Album"
    /\ ret.result.node["updated_at"] = <<"iso", 1>>
    /\ clock = 2

\* C13: the node update_node returns after a non-empty payload on an Album
\* has an updated_at strictly later than its created_at
C13_UpdatedAfterCreated ==
    (Returned("update") /\ ret.label = "Album" /\ ret.data # EmptyMap) =>
        ret.result.node["updated_at"][2] > ret.result.node["created_at"][2]

\* the elements of a label, the highest first: as long as no delete_node has
\* removed a node, elements are handed out in the order of the creates
LastCreatedFirst(label) ==
    CHOOSE o \in [1..Cardinality(LabelNodes(store, label)) ->
                     LabelNodes(store, label)] :
        \A i, j \in DOMAIN o : i < j => o[i] > o[j]

\* the arguments of the list_nodes call ret records
Limit == ret.data["limit"][2]

Offset == ret.data["offset"][2]

\* C14: list_nodes returns Album nodes created one after another newest
\* first: the last created at position 0, the first created last
C14_NewestFirst ==
    (/\ ret.op = "list"
     /\ ret.result.kind = "list"
     /\ ret.label = "Album"
     /\ deleted = {}
     /\ Offset = 0
     /\ Limit >= Cardinality(LabelNodes(store, "Album")))
    => ret.result.rows =
           [i \in DOMAIN LastCreatedFirst("Album") |->
               store[LastCreatedFirst("Album")[i]].props]

\* the elements of a sequence
Range(f) == {f[i] : i \in DOMAIN f}

Later(label, p) ==
    {s \in LabelNodes(store, label) : SortKey(store[s].props) > SortKey(p)}

NotEarlier(label, p) ==
    {s \in LabelNodes(store, label) : SortKey(store[s].props) >= SortKey(p)}

\* no two nodes of the label have the same created_at
DistinctStamps(label) ==
    \A s, t \in LabelNodes(store, label) :
        s # t => SortKey(store[s].props) # SortKey(store[t].props)

Executed(op) ==
    /\ Called(op)
    /\ Len(ret'.queries) = 1
    /\ ret'.queries[1].answer \in {"rows", "norows"}

\* C16: whenever its query executes without error delete_node returns a
\* boolean: true when at least one node with the label and id existed and the
\* call removed it, false in every other case
C16_DeleteBoolean ==
    [][Executed("delete") =>
          ret'.result = Bool(/\ Matches(store, ret'.label, ret'.id) # {}
                             /\ Matches(store, ret'.label, ret'.id)
                                    \cap DOMAIN store' = {})]_vars

\* the service calls
Services == {"create", "get", "update", "delete", "list", "count"}

\* C17: on a manager that was never connected each of create_node, get_node,
\* update_node, delete_node, list_nodes and count_nodes fails with the
\* Not-connected error of run_query, hands no query to the driver and leaves
\* the store and the schema as they were
C17_NotConnected ==
    [][(calls' = calls + 1 /\ ret'.op \in Services /\ driver = "None")
       => /\ ret'.result = Raise("NotConnected")
          /\ \A i \in DOMAIN ret'.queries :
                 ret'.queries[i].answer = "NotConnected"
          /\ store' = store
          /\ schema' = schema]_vars

C17_Witness ==
    /\ ret.op = "update"
    /\ ret.data = EmptyMap
    /\ driver = "None"
    /\ ret.result = Raise("NotConnected")

\* C18: initialize_schema raises nothing and hands all seven statements to
\* run_query in their order, whichever of them fail: every statement that did
\* not fail has its constraint or index in place afterwards, and no node is
\* touched
C18_SchemaRunsAll ==
    [][Called("initialize_schema")
       => /\ ret'.result = None
          /\ [i \in DOMAIN ret'.queries |-> ret'.queries[i].query] = Statements
          /\ \A j \in DOMAIN ret'.queries :
                 ret'.queries[j].answer = "norows" => Statements[j] \in schema'
          /\ store' = store]_vars

C18_Witness ==
    /\ ret.op = "initialize_schema"
    /\ driver = "set"
    /\ ret.result = None
    /\ ret.queries[3].answer = "ExecutionFailure"
    /\ ret.queries[4].answer = "norows"
    /\ "genre_id_unique" \notin schema
    /\ "album_created_at_index" \in schema

\* the step is an initialize_schema call on a connected manager that follows
\* an initialize_schema call
SecondCall ==
    /\ Called("initialize_schema")
    /\ ret.op = "initialize_schema"
    /\ driver # "None"

\* C19: a second initialize_schema call on a connected manager raises nothing
\* and leaves the constraints, the indexes and every node as the first call
\* left them
C19_SecondCallNoOp ==
    [][SecondCall => /\ ret'.result = None
                     /\ schema' = schema
                     /\ store' = store]_vars

\* C19 as amended: a second initialize_schema call on a connected manager
\* raises nothing, touches no node and removes no constraint or index; the
\* ones it adds are those whose statement failed in the first call, so it
\* changes nothing when every statement of the first call was executed
C19_SecondCallAddsOnly ==
    [][SecondCall
       => /\ ret'.result = None
          /\ store' = store
          /\ schema \subseteq schema'
          /\ \A j \in DOMAIN Statements :
                 Statements[j] \in schema' \ schema
                 => ret.queries[j].answer # "norows"]_vars

C19_Witness ==
    /\ ret.op = "initialize_schema"
    /\ calls = 2
    /\ driver = "set"
    /\ ret.result = None
    /\ ret.queries[1].answer = "ExecutionFailure"
    /\ schema = Range(Statements)

\* C20: when the creation query is executed and returns no record,
\* create_node raises to its caller, returns no node and runs no second query
C20_CreationFailure ==
    [][(Executed("create") /\ ret'.queries[1].answer = "norows")
       => /\ ret'.result = Raise("CreationFailure")
          /\ store' = store]_vars

C20_Witness ==
    /\ ret.op = "create"
    /\ ret.queries = <<[query |-> "CREATE", answer |-> "norows"]>>
    /\ ret.result = Raise("CreationFailure")

\* C21: every create_node, get_node, update_node, delete_node, list_nodes
\* and count_nodes call invokes run_query exactly once, whether the query
\* returns records, returns none or fails; a failure is raised to the caller
\* as it is, with nothing written and no further invocation
C21_OneQuery ==
    [][(calls' = calls + 1 /\ ret'.op \in Services)
       => /\ Len(ret'.queries) = 1
          /\ ret'.queries[1].answer \in {"NotConnected", "ExecutionFailure"}
                 => /\ ret'.result = Raise(ret'.queries[1].answer)
                    /\ store' = store
          /\ ret'.queries[1].answer \in {"rows", "norows"}
                 => ret'.result.err \notin {"NotConnected", "ExecutionFailure"}]_vars

C21_Witness ==
    /\ ret.op = "list"
    /\ ret.queries = <<[query |-> "ORDER", answer |-> "ExecutionFailure"]>>
    /\ ret.result = Raise("ExecutionFailure")

\* the step is the run of the query of an update_node call in flight
Ran ==
    /\ ret'.op = "update"
    /\ calls' = calls
    /\ DOMAIN pending' # DOMAIN pending

\* ret is an update_node call on the label and id of the one that returns in
\* this step, and it returned the node
Before ==
    /\ ret.op = "update"
    /\ ret.result.kind = "node"
    /\ ret.label = ret'.label
    /\ ret.id = ret'.id

\* C22: of update_node calls in flight on one label and id, each one's
\* assignments are written in one step, and the node is what the payloads give
\* in the order their queries ran: a key both name holds the value of the call
\* that ran later, a key only one names holds that call's value
C22_LastWriteWins ==
    [][(Ran /\ ret'.result.kind = "node")
       => \A s \in Matches(store, ret'.label, ret'.id) :
              /\ DOMAIN store'[s].props =
                     DOMAIN store[s].props \cup DOMAIN ret'.left
              /\ \A k \in DOMAIN ret'.data \cap DOMAIN store'[s].props :
                     (k # "updated_at" \/ ret'.label \notin UpdatedAtLabels)
                     => store'[s].props[k] = IsoFormat(ret'.data[k])
              /\ \A k \in DOMAIN ret'.left \cap DOMAIN store'[s].props :
                     store'[s].props[k] = ret'.left[k]
              /\ \A k \in (DOMAIN store[s].props \ DOMAIN ret'.left)
                            \cap DOMAIN store'[s].props :
                     store'[s].props[k] = store[s].props[k]
              /\ Before =>
                     \A k \in (DOMAIN ret.left \ DOMAIN ret'.left)
                                \cap DOMAIN store'[s].props :
                         store'[s].props[k] = ret.left[k]]_vars

C22_Witness ==
    /\ Returned("update")
    /\ "title" \in DOMAIN ret.data
    /\ ret.left["updated_at"] = <<"iso", 2>>
    /\ \E task \in DOMAIN pending :
           /\ pending[task].label = ret.label
           /\ pending[task].id = ret.id
           /\ "title" \notin DOMAIN pending[task].data
           /\ pending[task].set["updated_at"] = <<"iso", 1>>

\* the labels the schema and the models know
KnownLabels == {"Album", "Artist", "Genre"}

\* C23: a node create_node makes under a label other than Album, Artist and
\* Genre gets no field of its own: it is stored and returned with exactly the
\* fields the caller supplied
C23_UnknownLabelPlain ==
    (Returned("create") /\ ret.label \notin KnownLabels) =>
        /\ DOMAIN ret.result.node = DOMAIN ret.data
        /\ \E s \in DOMAIN store :
               /\ store[s].label = ret.label
               /\ DOMAIN store[s].props = DOMAIN ret.data

\* C24: test_connection raises nothing: it returns true when its probe query
\* returned a record and false in every other case, so false on a manager
\* that was never connected; it writes nothing
C24_ProbeNeverRaises ==
    [][Called("test_connection")
       => /\ Len(ret'.queries) = 1
          /\ ret'.result = Bool(ret'.queries[1].answer = "rows")
          /\ driver = "None" => ret'.result = Bool(FALSE)
          /\ store' = store]_vars

C24_Witness ==
    /\ ret.op = "test_connection"
    /\ driver = "None"
    /\ ret.queries = <<[query |-> "RETURN", answer |-> "NotConnected"]>>
    /\ ret.result = Bool(FALSE)

\* run_query refuses every query with the Not-connected error
Refuses == \A fail \in Responses : RunQuery(fail) = "NotConnected"

\* C25: as long as no connect() has completed without an error run_query
\* refuses with the Not-connected error and hands nothing to the driver:
\* before any connect(), and after a connect() that raised
C25_RefusesUntilConnected ==
    /\ [](driver = "None" => Refuses)
    /\ [][(/\ driver = "None"
           /\ ret'.op = "connect"
           /\ ret'.result.kind = "raise") => Refuses']_vars

\* C26: however update_node calls with non-empty payloads on one Album
\* overlap, the updated_at the store holds for the node never goes back from
\* one write to the next (the clock never goes back)
C26_UpdatedAtNeverBack ==
    [][Ran => \A s \in DOMAIN store \cap DOMAIN store' :
                  store[s].label = "Album"
                  => store'[s].props["updated_at"][2]
                         >= store[s].props["updated_at"][2]]_vars

\* the label and id of every node in a store
Present(st) ==
    {<<st[s].label, st[s].props["id"]>> :
        s \in {t \in DOMAIN st : "id" \in DOMAIN st[t].props}}

\* C27: when update_node and delete_node calls on one label and id overlap,
\* the update makes no node: its write leaves the store with the elements it
\* had and no node of the label and id where none matched, when it returns
\* it returns the node as the write left it or None when none matched, and a
\* node delete_node returned true for is not in the store afterwards
C27_UpdateNeverCreates ==
    /\ [](\A pair \in deleted : pair \notin Present(store))
    /\ [][Ran =>
            /\ DOMAIN store' = DOMAIN store
            /\ Present(store') = Present(store)
            /\ Matches(store, ret'.label, ret'.id) = {} => store' = store
            /\ ret'.result.kind # "raise" =>
                   IF Matches(store, ret'.label, ret'.id) = {}
                   THEN ret'.result = None
                   ELSE \E s \in Matches(store', ret'.label, ret'.id) :
                            ret'.result = Node(store'[s].props)]_vars

\* an update that had begun before delete_node removed its node returns None
C27_Witness ==
    /\ ret.op = "update"
    /\ ret.result = None
    /\ ~NoUpdates(ret.data)
    /\ <<ret.label, ret.id>> \in deleted
    /\ <<ret.label, ret.id>> \notin Present(store)

\* C28: when update_node has returned or raised, the mapping the caller
\* passed holds the keys and values it held before the call, whatever the label
C28_CallerMappingKept == ret.op = "update" => ret.left = ret.data

====
